---- MODULE Spec2Model ----
(***************************************************************************)
(* A model of lsst.ts.hexrotcomm.BaseMockController: the controller state  *)
(* machine, the command dispatcher (read_and_dispatch / run_command), the  *)
(* telemetry/config publisher (telemetry_loop) and the connection          *)
(* lifecycle (connect_callback / close_client); and of SimpleCsc, the CSC  *)
(* that is its client in simulation (config_callback, telemetry_callback). *)
(*                                                                         *)
(* asyncio runs the coroutines on one thread, so every action below is the *)
(* code between two suspension points (await of a read, of a write's       *)
(* drain, of a sleep).                                                     *)
(***************************************************************************)
EXTENDS Integers, Sequences, FiniteSets, TLC

(***************************************************************************)
(* Bounds of the model.                                                    *)
(***************************************************************************)
\* Commands read per connection.
MaxCommands == 2
\* Telemetry records written per connection.
MaxTelemetry == 2
\* Largest command counter a client supplies.
MaxCounter == 2

(***************************************************************************)
(* Enumerations the code uses.                                             *)
(***************************************************************************)
STANDBY == "STANDBY"
ENABLED_STATE == "ENABLED"
FAULT == "FAULT"
ControllerState == {STANDBY, ENABLED_STATE, FAULT}

STATIONARY == "STATIONARY"
\* The literal 0 that set_state stores when the state is not ENABLED.
NoSubstate == "0"

ACK == "ACK"
NO_ACK == "NO_ACK"

CONFIG == "CONFIG"
TELEMETRY == "TELEMETRY"
COMMAND_STATUS == "COMMAND_STATUS"
FrameId == {CONFIG, TELEMETRY, COMMAND_STATUS}

SET_STATE == "SET_STATE"
SET_ENABLED_SUBSTATE == "SET_ENABLED_SUBSTATE"
ENABLE_DRIVES == "ENABLE_DRIVES"
MOVE == "MOVE"
\* The members of the CommandCode enumeration given at construction.
CommandCode == {SET_STATE, SET_ENABLED_SUBSTATE, ENABLE_DRIVES, MOVE}
\* An opcode a client can send that is no member of CommandCode.
BOGUS == "BOGUS"

\* SetStateParam members used as keys of command_table, and one that is not.
ENABLE == "ENABLE"
STANDBY_PARAM == "STANDBY"
CLEAR_ERROR == "CLEAR_ERROR"
START == "START"
ZERO == "ZERO"

\* salobj.State: the summary states of the CSC that the tests meet.
State_STANDBY == "State.STANDBY"
State_DISABLED == "State.DISABLED"
State_ENABLED == "State.ENABLED"
State_FAULT == "State.FAULT"

\* ErrorCode: the error codes of the CSC (0 is no error).
CONTROLLER_FAULT == 1
CONNECTION_LOST == 2

\* ApplicationStatus: the flag that says the CSC may command the controller.
DDS_COMMAND_SOURCE == "DDS_COMMAND_SOURCE"

(***************************************************************************)
(* param1 is a double on the wire.  It is modelled by its integer part     *)
(* (towards zero) and by whether it has a fractional part: int(param1) is  *)
(* the integer part, bool(param1) is false only for 0.0.                   *)
(***************************************************************************)
Param1(i, f) == [int |-> i, frac |-> f]

IntOf(param1) == param1.int

BoolOf(param1) == ~(param1.int = ZERO /\ ~param1.frac)

Counters == 1..MaxCounter

\* The (code, param1) pairs a client sends in the model.
CommandInputs ==
    ({SET_STATE} \X {Param1(ENABLE, FALSE), Param1(ENABLE, TRUE), Param1(STANDBY_PARAM, FALSE),
                     Param1(CLEAR_ERROR, FALSE), Param1(START, FALSE)})
    \cup ({ENABLE_DRIVES} \X {Param1(ZERO, FALSE), Param1(ZERO, TRUE), Param1(ENABLE, FALSE)})
    \cup ({SET_ENABLED_SUBSTATE, MOVE, BOGUS} \X {Param1(ENABLE, FALSE)})

\* The Command records a client can send.
Commands == {[code |-> i[1], counter |-> c, param1 |-> i[2]] : i \in CommandInputs, c \in Counters}

\* A constructor whose initial_state defaults to ENABLED.
initial_state_enabled == ENABLED_STATE

\* The initial_state argument of the constructor: its default.
initial_state == STANDBY

VARIABLES
    state,               \* telemetry.state
    enabled_substate,    \* telemetry.enabled_substate
    drives_enabled,      \* config.drives_enabled
    connected,           \* the server's connected property
    orphaned,            \* a telemetry loop that telemetry_loop_task no longer holds is running
    teardown_pending,    \* the peer dropped; the connect callback has not run yet
    telemetry_loop_task, \* where telemetry_loop is: "done", "start", "cfg_drain", "sleep"
    read_loop,           \* where the command loop is: "idle", "read", "cfg_drain", "status_drain"
    command,             \* the Command being dispatched (a set: empty when there is none)
    command_status,      \* the CommandStatus written for it (a set: empty when there is none)
    config_written,      \* the Config its method wrote (a set: empty when there is none)
    raised,              \* the exception run_command raised for it (a set: empty when none)
    calls,               \* history: the methods run_command called for it, in order
    commands_read,       \* history: the number of Commands read on this connection
    wire,                \* history: the frames written on this connection, in order
    telemetry_written,   \* observed: the last Telemetry record of this connection (a set)
    enable_acked,        \* observed: enable was ACKed and no Telemetry was written since
    rejected,            \* observed: a second client was rejected during this connection
    last_config,         \* observed: the last Config record of this connection (a set)
    write_failed,        \* observed: the write of a CommandStatus failed for want of a client
    application_status,  \* telemetry.application_status: the set of its flags that are set
    summary_state,       \* CSC: its summary state
    error_code,          \* CSC: the errorCode it reports
    evt_controllerState, \* CSC: history: the controllerState events published, in order
    evt_commandableByDDS, \* CSC: the state of the last commandableByDDS event (a set)
    inbox,               \* CSC: the Config and Telemetry records written and not yet read
    csc_phase,           \* CSC: "start", "wait_telemetry", "enable", "wait_ack", "running",
                         \*      "lost", "standby"
    stimulus,            \* what was done to the mock controller: "none", "fault", "close", "eui",
                         \* "config", "eui_config"
    client_telemetry     \* CSC: client.telemetry, the Telemetry record the client read last

\* The controller and its history.
controller_vars ==
    <<state, enabled_substate, drives_enabled, connected, teardown_pending, orphaned,
      telemetry_loop_task, read_loop, command, command_status, config_written, raised,
      calls, commands_read, wire>>

\* What an observer of a session records; only SpecSession keeps it.
session_observed == <<telemetry_written, enable_acked, rejected>>

\* What an observer of the Config records and of lost writes records; only
\* SpecDrives keeps it.
drives_observed == <<last_config, write_failed>>

\* The CSC that is the client of the mock controller, the flags of the telemetry
\* it reads and what was done to the mock controller; only SpecCsc and
\* SpecCscConfig keep them.
csc_vars ==
    <<application_status, summary_state, error_code, evt_controllerState,
      evt_commandableByDDS, inbox, csc_phase, stimulus, client_telemetry>>

observed == <<session_observed, drives_observed, csc_vars>>

\* What a session of SpecSession and of SpecDrives leaves alone.
not_session == <<drives_observed, csc_vars>>

not_drives == <<session_observed, csc_vars>>

vars == <<controller_vars, observed>>

\* The engine state a handler reads and changes.
Engine == [state |-> state, enabled_substate |-> enabled_substate,
           drives_enabled |-> drives_enabled]

(***************************************************************************)
(* Exceptions: the type and the args tuple; a message is a sequence of     *)
(* tokens.                                                                 *)
(***************************************************************************)
NoException == [type |-> "None", args |-> <<>>]

CommandError(msg) == [type |-> "CommandError", args |-> <<msg>>]

OtherException(type, msg) == [type |-> type, args |-> <<msg>>]

\* NotImplementedError(), raised without arguments.
NotImplementedError == [type |-> "NotImplementedError", args |-> <<>>]

\* str(e) of an exception.
StrOf(e) == IF Len(e.args) = 0 THEN <<>> ELSE e.args[1]

\* What a handler leaves: the exception raised (if any), the engine state, the
\* duration returned (a set: empty for None) and whether it awaits write_config.
Raise(eng, e) == [exc |-> e, eng |-> eng, duration |-> {}, awaits_config |-> FALSE]

Return(eng, duration) == [exc |-> NoException, eng |-> eng, duration |-> duration,
                          awaits_config |-> FALSE]

(***************************************************************************)
(* The controller state machine.                                           *)
(***************************************************************************)
\* set_state that sets the state and leaves the substate as it is.
set_state_keep_substate(eng, s) == [eng EXCEPT !.state = s]

set_state(eng, s) ==
    [eng EXCEPT !.state = s,
                !.enabled_substate = IF s = ENABLED_STATE THEN STATIONARY ELSE NoSubstate]

\* assert_state that accepts every state.
assert_state_unchecked(eng, s) == NoException

\* The exception assert_state raises, or NoException.
assert_state(eng, s) ==
    IF eng.state # s
    THEN CommandError(<<"state=", eng.state, "; must be", s, "for this command.">>)
    ELSE NoException

\* do_enable_drives that sets the flag and leaves the Config to the publisher.
do_enable_drives_deferred(eng, cmd) ==
    Return([eng EXCEPT !.drives_enabled = BoolOf(cmd.param1)], {})

\* do_enable_drives that requires the ENABLED state, as a command that moves does.
do_enable_drives_when_enabled(eng, cmd) ==
    LET e == assert_state(eng, ENABLED_STATE)
    IN  IF e # NoException THEN Raise(eng, e)
        ELSE [exc |-> NoException, eng |-> [eng EXCEPT !.drives_enabled = BoolOf(cmd.param1)],
              duration |-> {}, awaits_config |-> TRUE]

\* do_enable_drives that awaits write_config first and sets the flag after it.
do_enable_drives_set_late(eng, cmd) ==
    [exc |-> NoException, eng |-> eng, duration |-> {}, awaits_config |-> TRUE]

do_enable_drives(eng, cmd) ==
    [exc |-> NoException, eng |-> [eng EXCEPT !.drives_enabled = BoolOf(cmd.param1)],
     duration |-> {}, awaits_config |-> TRUE]

\* do_enable that also accepts FAULT.
do_enable_from_fault(eng, cmd) ==
    IF eng.state \notin {STANDBY, FAULT}
    THEN Raise(eng, CommandError(<<"state=", eng.state, "; must be", STANDBY,
                                   "for this command.">>))
    ELSE Return(set_state(eng, ENABLED_STATE), {})

do_enable(eng, cmd) ==
    LET e == assert_state(eng, STANDBY)
    IN  IF e # NoException THEN Raise(eng, e) ELSE Return(set_state(eng, ENABLED_STATE), {})

\* do_standby without its assert_state.
do_standby_unchecked(eng, cmd) == Return(set_state(eng, STANDBY), {})

do_standby(eng, cmd) ==
    LET e == assert_state(eng, ENABLED_STATE)
    IN  IF e # NoException THEN Raise(eng, e) ELSE Return(set_state(eng, STANDBY), {})

\* do_clear_error that accepts FAULT only.
do_clear_error_fault_only(eng, cmd) ==
    IF eng.state # FAULT
    THEN Raise(eng, CommandError(<<"state=", eng.state, "; must be FAULT",
                                   "for this command.">>))
    ELSE Return(set_state(eng, STANDBY), {})

do_clear_error(eng, cmd) ==
    IF eng.state \notin {FAULT, STANDBY}
    THEN Raise(eng, CommandError(<<"state=", eng.state, "; must be FAULT or STANDBY",
                                   "for this command.">>))
    ELSE Return(set_state(eng, STANDBY), {})

(***************************************************************************)
(* A device-specific command (extra_commands): what its method may do.     *)
(***************************************************************************)
MoveOutcomes == {"none", "duration", "rejected", "failed"}

\* The same, and a device whose end_run_command ends in the base method's raise.
DeviceOutcomes == MoveOutcomes \cup {"hook_failed"}

\* The same, and a device whose method raises CommandError() without a message.
BareOutcomes == MoveOutcomes \cup {"rejected_bare"}

do_move(eng, cmd, outcome) ==
    CASE outcome \in {"none", "hook_failed"} -> Return(eng, {})
      [] outcome = "duration" -> Return(eng, {1})
      [] outcome = "rejected" -> Raise(eng, CommandError(<<"position", "not in range">>))
      [] outcome = "rejected_bare" -> Raise(eng, [type |-> "CommandError", args |-> <<>>])
      [] outcome = "failed" -> Raise(eng, OtherException("RuntimeError", <<"move failed">>))

\* The device's end_run_command hook: the exception it raises, or NoException.
end_run_command(eng, cmd, cmd_method, outcome) ==
    IF outcome = "hook_failed" THEN NotImplementedError ELSE NoException

(***************************************************************************)
(* The command dispatcher.                                                 *)
(***************************************************************************)
\* get_command_key that builds the key of both state opcodes with SET_STATE.
get_command_key_set_state(cmd) ==
    IF cmd.code \in {SET_STATE, SET_ENABLED_SUBSTATE}
    THEN <<SET_STATE, IntOf(cmd.param1)>>
    ELSE <<cmd.code>>

get_command_key(cmd) ==
    IF cmd.code \in {SET_STATE, SET_ENABLED_SUBSTATE}
    THEN <<cmd.code, IntOf(cmd.param1)>>
    ELSE <<cmd.code>>

\* command_table: the keys and the method each selects.
command_table ==
    (<<SET_STATE, ENABLE>> :> "do_enable")
    @@ (<<SET_STATE, STANDBY_PARAM>> :> "do_standby")
    @@ (<<SET_STATE, CLEAR_ERROR>> :> "do_clear_error")
    @@ (<<ENABLE_DRIVES>> :> "do_enable_drives")
    @@ (<<MOVE>> :> "do_move")

cmd_method_call(cmd_method, eng, cmd, outcome) ==
    CASE cmd_method = "do_enable" -> do_enable(eng, cmd)
      [] cmd_method = "do_standby" -> do_standby(eng, cmd)
      [] cmd_method = "do_clear_error" -> do_clear_error(eng, cmd)
      [] cmd_method = "do_enable_drives" -> do_enable_drives(eng, cmd)
      [] cmd_method = "do_move" -> do_move(eng, cmd, outcome)

\* A result with the methods run_command called to reach it.
WithCalls(r, called) ==
    [exc |-> r.exc, eng |-> r.eng, duration |-> r.duration,
     awaits_config |-> r.awaits_config, calls |-> called]

\* run_command that calls end_run_command in a "finally": also when the method
\* raised.
run_command_hook_always(eng, cmd, outcome) ==
    IF cmd.code \notin CommandCode
    THEN WithCalls(Raise(eng, OtherException("ValueError",
                                             <<cmd.code, "is not a valid CommandCode">>)),
                   <<>>)
    ELSE LET key == get_command_key(cmd)
         IN  IF key \notin DOMAIN command_table
             THEN WithCalls(Raise(eng, CommandError(<<"Unrecognized command code", cmd.code,
                                                      "; param1=...">>)),
                            <<>>)
             ELSE LET cmd_method == command_table[key]
                      r == cmd_method_call(cmd_method, eng, cmd, outcome)
                      e == end_run_command(r.eng, cmd, cmd_method, outcome)
                  IN  IF r.awaits_config
                      THEN WithCalls(r, <<cmd_method>>)
                      ELSE IF e = NoException
                      THEN WithCalls(r, <<cmd_method, "end_run_command">>)
                      ELSE WithCalls(Raise(r.eng, e), <<cmd_method, "end_run_command">>)

\* run_command up to its first suspension: the result of the method, with
\* end_run_command applied when the method returned without awaiting.
run_command(eng, cmd, outcome) ==
    IF cmd.code \notin CommandCode
    THEN \* CommandCode(command.code) in the log message raises ValueError
         WithCalls(Raise(eng, OtherException("ValueError",
                                             <<cmd.code, "is not a valid CommandCode">>)),
                   <<>>)
    ELSE LET key == get_command_key(cmd)
         IN  IF key \notin DOMAIN command_table
             THEN WithCalls(Raise(eng, CommandError(<<"Unrecognized command code", cmd.code,
                                                      "; param1=...">>)),
                            <<>>)
             ELSE LET cmd_method == command_table[key]
                      r == cmd_method_call(cmd_method, eng, cmd, outcome)
                      e == end_run_command(r.eng, cmd, cmd_method, outcome)
                  IN  IF r.exc # NoException \/ r.awaits_config
                      THEN WithCalls(r, <<cmd_method>>)
                      ELSE IF e = NoException
                      THEN WithCalls(r, <<cmd_method, "end_run_command">>)
                      ELSE WithCalls(Raise(r.eng, e), <<cmd_method, "end_run_command">>)

(***************************************************************************)
(* Writing records.  Each frame kind has its own retained header, and only *)
(* write_command_status sets a counter, right before its write; so a       *)
(* CommandStatus is modelled with the counter its header carries, and the  *)
(* other frames carry none.                                                *)
(***************************************************************************)
\* The length of CommandStatus.reason, in tokens.
COMMAND_STATUS_REASON_LEN == 3

\* reason.encode()[0 : COMMAND_STATUS_REASON_LEN]
TruncateReason(reason) ==
    SubSeq(reason, 1, IF Len(reason) < COMMAND_STATUS_REASON_LEN
                      THEN Len(reason) ELSE COMMAND_STATUS_REASON_LEN)

\* write_command_status without "header.counter = counter".
write_command_status_no_counter(counter, status, duration, reason) ==
    [counter |-> 0,
     status |-> status,
     duration |-> IF duration = {} THEN 0 ELSE CHOOSE d \in duration : TRUE,
     reason |-> TruncateReason(reason)]

\* write_command_status: the header counter and the CommandStatus it writes.
write_command_status(counter, status, duration, reason) ==
    [counter |-> counter,
     status |-> status,
     duration |-> IF duration = {} THEN 0 ELSE CHOOSE d \in duration : TRUE,
     reason |-> TruncateReason(reason)]

\* read_and_dispatch whose "except Exception" branch logs and writes nothing.
command_status_for_log_only(cmd, r) ==
    IF r.exc.type = "CommandError"
    THEN {write_command_status(cmd.counter, NO_ACK, {0}, r.exc.args[1])}
    ELSE IF r.exc # NoException
    THEN {}
    ELSE {write_command_status(cmd.counter, ACK,
                               IF r.duration = {} THEN {0} ELSE r.duration, <<>>)}

\* read_and_dispatch that reports a missing duration as -1.
command_status_for_no_default(cmd, r) ==
    IF r.exc.type = "CommandError"
    THEN {write_command_status(cmd.counter, NO_ACK, {0}, r.exc.args[1])}
    ELSE IF r.exc # NoException
    THEN {write_command_status(cmd.counter, NO_ACK, {0}, StrOf(r.exc))}
    ELSE {write_command_status(cmd.counter, ACK,
                               IF r.duration = {} THEN {-1} ELSE r.duration, <<>>)}

\* read_and_dispatch whose "except Exception" branch reports the exception type.
command_status_for_type_name(cmd, r) ==
    IF r.exc.type = "CommandError"
    THEN {write_command_status(cmd.counter, NO_ACK, {0}, r.exc.args[1])}
    ELSE IF r.exc # NoException
    THEN {write_command_status(cmd.counter, NO_ACK, {0}, <<r.exc.type>>)}
    ELSE {write_command_status(cmd.counter, ACK,
                               IF r.duration = {} THEN {0} ELSE r.duration, <<>>)}

\* "reason=e.args[0]" in the "except CommandError" branch raises IndexError when
\* the CommandError has no arguments; raised inside an except clause, it is not
\* caught by the "except Exception" clause next to it and leaves read_and_dispatch.
read_and_dispatch_escapes(cmd, r) == r.exc.type = "CommandError" /\ Len(r.exc.args) = 0

\* read_and_dispatch after run_command: the CommandStatus records it writes for
\* the result (one, in each of its three branches; none when building the
\* arguments of the write raises).
command_status_for(cmd, r) ==
    IF read_and_dispatch_escapes(cmd, r)
    THEN {}
    ELSE IF r.exc.type = "CommandError"
    THEN {write_command_status(cmd.counter, NO_ACK, {0}, r.exc.args[1])}
    ELSE IF r.exc # NoException
    THEN {write_command_status(cmd.counter, NO_ACK, {0}, StrOf(r.exc))}
    ELSE {write_command_status(cmd.counter, ACK,
                               IF r.duration = {} THEN {0} ELSE r.duration, <<>>)}

\* write_config that writes the Config as it was when the controller was built.
write_config_as_built(eng) == [drives_enabled |-> FALSE]

\* write_config: the Config record it writes.
write_config(eng) == [drives_enabled |-> eng.drives_enabled]

\* A frame in the history of the wire: its kind and the coroutine that wrote it.
Frame(frame_id, by) == [frame_id |-> frame_id, by |-> by]

\* The frames of the wire history for a set of CommandStatus records.
StatusFrames(ws) == IF ws = {} THEN <<>> ELSE <<Frame(COMMAND_STATUS, "read_and_dispatch")>>

\* telemetry_loop with write_config inside its while loop.
telemetry_loop_writes_config_in_loop(place, is_connected, updated) ==
    IF ~is_connected THEN <<>>
    ELSE IF place = "start" THEN <<Frame(CONFIG, "telemetry_loop")>>
    ELSE IF updated
    THEN <<Frame(CONFIG, "telemetry_loop"), Frame(TELEMETRY, "telemetry_loop")>>
    ELSE <<>>

\* telemetry_loop without "await self.write_config()" before its while loop.
telemetry_loop_writes_no_config(place, is_connected, updated) ==
    IF ~is_connected THEN <<>>
    ELSE IF place = "start" THEN <<>>
    ELSE IF updated THEN <<Frame(TELEMETRY, "telemetry_loop")>>
    ELSE <<>>

\* What telemetry_loop writes when it runs from the given place.
telemetry_loop_writes(place, is_connected, updated) ==
    IF ~is_connected THEN <<>>
    ELSE IF place = "start" THEN <<Frame(CONFIG, "telemetry_loop")>>
    ELSE IF updated THEN <<Frame(TELEMETRY, "telemetry_loop")>>
    ELSE <<>>

\* telemetry_loop that writes a Telemetry as it was when the controller was built.
telemetry_record_as_built(eng) ==
    [state |-> initial_state,
     enabled_substate |-> IF initial_state = ENABLED_STATE THEN STATIONARY ELSE NoSubstate]

\* The Telemetry record telemetry_loop writes: self.telemetry as it is then, with
\* the state and the substate of the controller.
telemetry_record(eng) == [state |-> eng.state, enabled_substate |-> eng.enabled_substate]

\* telemetry_loop that logs a failure of a round and goes on with the next round.
telemetry_loop_next_retries(place, is_connected, updated) ==
    IF ~is_connected THEN "done"
    ELSE IF place = "start" THEN "cfg_drain"
    ELSE "sleep"

\* telemetry_loop without its "while self.server.connected" loop: it writes one
\* Telemetry record and returns.
telemetry_loop_next_once(place, is_connected, updated) ==
    IF ~is_connected THEN "done"
    ELSE IF place = "start" THEN "cfg_drain"
    ELSE "done"

\* Where telemetry_loop is after it ran from the given place: it ends when the
\* client is gone and when update_telemetry or the write raises.
telemetry_loop_next(place, is_connected, updated) ==
    IF ~is_connected THEN "done"
    ELSE IF place = "start" THEN "cfg_drain"
    ELSE IF updated THEN "sleep"
    ELSE "done"

(***************************************************************************)
(* The connection lifecycle.                                               *)
(***************************************************************************)
\* connect_callback that calls set_state(initial_state) for a new client.
connect_callback_set_state(eng, is_connected, task) ==
    [eng |-> IF is_connected THEN set_state(eng, initial_state) ELSE eng,
     telemetry_loop_task |-> IF is_connected THEN "start" ELSE "done",
     orphaned |-> FALSE]

\* connect_callback that gives a new client a fresh configuration.
connect_callback_new_config(eng, is_connected, task) ==
    [eng |-> IF is_connected THEN [eng EXCEPT !.drives_enabled = FALSE] ELSE eng,
     telemetry_loop_task |-> IF is_connected THEN "start" ELSE "done",
     orphaned |-> FALSE]

\* connect_callback that starts a telemetry loop whatever the connection state.
connect_callback_always_starts(eng, is_connected, task) ==
    [eng |-> eng, telemetry_loop_task |-> "start", orphaned |-> FALSE]

\* connect_callback without "self.telemetry_loop_task.cancel()": the loop it
\* held goes on, and is lost from sight when a new one is created.
connect_callback_no_cancel(eng, is_connected, task) ==
    [eng |-> eng,
     telemetry_loop_task |-> IF is_connected THEN "start" ELSE task,
     orphaned |-> is_connected /\ task # "done"]

\* connect_callback: cancel the telemetry loop and, if connected, start a new
\* one, given the task it holds.  It returns the engine state, the telemetry loop
\* task it leaves and whether the loop it held before is left running.
connect_callback(eng, is_connected, task) ==
    [eng |-> eng, telemetry_loop_task |-> IF is_connected THEN "start" ELSE "done",
     orphaned |-> FALSE]

Init ==
    /\ state = set_state([state |-> STANDBY, enabled_substate |-> NoSubstate,
                          drives_enabled |-> FALSE], initial_state).state
    /\ enabled_substate = set_state([state |-> STANDBY, enabled_substate |-> NoSubstate,
                                     drives_enabled |-> FALSE], initial_state).enabled_substate
    /\ drives_enabled = FALSE
    /\ connected = FALSE
    /\ teardown_pending = FALSE
    /\ orphaned = FALSE
    /\ telemetry_loop_task = "done"
    /\ read_loop = "idle"
    /\ command = {}
    /\ command_status = {}
    /\ config_written = {}
    /\ raised = {}
    /\ calls = <<>>
    /\ commands_read = 0
    /\ wire = <<>>
    /\ telemetry_written = {}
    /\ enable_acked = FALSE
    /\ rejected = FALSE
    /\ last_config = {}
    /\ write_failed = FALSE
    /\ application_status = {DDS_COMMAND_SOURCE}
    /\ summary_state = State_ENABLED
    /\ error_code = 0
    /\ evt_controllerState = <<>>
    /\ evt_commandableByDDS = {}
    /\ inbox = <<>>
    /\ csc_phase = "start"
    /\ stimulus = "none"
    /\ client_telemetry = {}

\* A client connects: the server calls connect_callback and starts the read loop.
Connect ==
    /\ ~connected
    /\ ~teardown_pending
    /\ connected' = TRUE
    /\ LET c == connect_callback(Engine, TRUE, telemetry_loop_task)
       IN  /\ state' = c.eng.state
           /\ enabled_substate' = c.eng.enabled_substate
           /\ drives_enabled' = c.eng.drives_enabled
           /\ telemetry_loop_task' = c.telemetry_loop_task
           /\ orphaned' = (orphaned \/ c.orphaned)
    /\ read_loop' = "read"
    /\ command' = {}
    /\ command_status' = {}
    /\ config_written' = {}
    /\ raised' = {}
    /\ calls' = <<>>
    /\ commands_read' = 0
    /\ wire' = <<>>
    /\ UNCHANGED <<teardown_pending>>

\* A second client tries to connect while one is connected: the server rejects
\* it (it closes the new socket) and does not call connect_callback.
SecondConnect ==
    /\ connected
    /\ UNCHANGED controller_vars

\* The client goes away: connected turns false; the server has not reacted yet.
ClientDrop ==
    /\ connected
    /\ connected' = FALSE
    /\ teardown_pending' = TRUE
    /\ UNCHANGED <<state, enabled_substate, drives_enabled,
                   telemetry_loop_task, read_loop, command, command_status,
                   config_written, raised, orphaned, calls, commands_read, wire>>

\* The server notices the lost client and calls connect_callback.
Teardown ==
    /\ teardown_pending
    /\ teardown_pending' = FALSE
    /\ LET c == connect_callback(Engine, connected, telemetry_loop_task)
       IN  /\ state' = c.eng.state
           /\ enabled_substate' = c.eng.enabled_substate
           /\ drives_enabled' = c.eng.drives_enabled
           /\ telemetry_loop_task' = c.telemetry_loop_task
           /\ orphaned' = (orphaned \/ c.orphaned)
    /\ UNCHANGED <<connected, read_loop, command, command_status, config_written, raised, calls,
                   commands_read, wire>>

\* close_client without "await super().close_client(**kwargs)": the telemetry loop
\* is cancelled and the client stays.
close_client_keeps_client ==
    /\ telemetry_loop_task' = "done"
    /\ UNCHANGED <<state, enabled_substate, drives_enabled, connected, teardown_pending,
                   orphaned, read_loop, command, command_status, config_written, raised,
                   calls, commands_read, wire>>

\* close_client: cancel the telemetry loop, close the client; the server then
\* calls connect_callback, which finds the task done.
close_client ==
    /\ connected' = FALSE
    /\ teardown_pending' = FALSE
    /\ LET c == connect_callback(Engine, FALSE, "done")
       IN  /\ state' = c.eng.state
           /\ enabled_substate' = c.eng.enabled_substate
           /\ drives_enabled' = c.eng.drives_enabled
           /\ telemetry_loop_task' = c.telemetry_loop_task
           /\ orphaned' = (orphaned \/ c.orphaned)
    /\ UNCHANGED <<read_loop, command, command_status, config_written, raised, calls, commands_read,
                   wire>>

\* set_state called from outside the command path (device logic, a test).
ExternalSetState(s) ==
    /\ state' = set_state(Engine, s).state
    /\ enabled_substate' = set_state(Engine, s).enabled_substate
    /\ UNCHANGED <<drives_enabled, connected, teardown_pending, orphaned, telemetry_loop_task,
                   read_loop, command, command_status, config_written, raised, calls, commands_read,
                   wire>>

(***************************************************************************)
(* The command loop: read_and_dispatch, called while connected.            *)
(***************************************************************************)
\* A Command is read and run_command runs to its first suspension: either the
\* method awaits write_config (do_enable_drives) or the CommandStatus is written.
\* An exception that leaves read_and_dispatch ends the read loop.
ReadAndDispatch(cmd, outcome) ==
    /\ read_loop = "read"
    /\ connected
    /\ commands_read < MaxCommands
    /\ commands_read' = commands_read + 1
    /\ command' = {cmd}
    /\ LET r == run_command(Engine, cmd, outcome)
           ws == command_status_for(cmd, r)
       IN  /\ state' = r.eng.state
           /\ enabled_substate' = r.eng.enabled_substate
           /\ drives_enabled' = r.eng.drives_enabled
           /\ calls' = r.calls
           /\ raised' = (IF r.exc = NoException THEN {} ELSE {r.exc})
           /\ IF r.awaits_config
              THEN /\ wire' = Append(wire, Frame(CONFIG, "do_enable_drives"))
                   /\ config_written' = {write_config(r.eng)}
                   /\ read_loop' = "cfg_drain"
                   /\ command_status' = {}
              ELSE /\ wire' = wire \o StatusFrames(ws)
                   /\ config_written' = {}
                   /\ command_status' = ws
                   /\ read_loop' = IF read_and_dispatch_escapes(cmd, r)
                                   THEN "idle" ELSE "status_drain"
    /\ UNCHANGED <<connected, teardown_pending, orphaned, telemetry_loop_task>>

\* do_enable_drives resumes after write_config: end_run_command runs and the
\* CommandStatus is written.  Without a client the write raises ConnectionError,
\* which leaves read_and_dispatch and ends the read loop.
EnableDrivesResume(outcome) ==
    /\ read_loop = "cfg_drain"
    /\ \E cmd \in command :
        IF connected
        THEN LET e == end_run_command(Engine, cmd, "do_enable_drives", outcome)
                 r == IF e = NoException THEN Return(Engine, {}) ELSE Raise(Engine, e)
                 ws == command_status_for(cmd, r)
             IN  /\ wire' = wire \o StatusFrames(ws)
                 /\ command_status' = ws
                 /\ calls' = Append(calls, "end_run_command")
                 /\ read_loop' = "status_drain"
                 /\ raised' = (IF e = NoException THEN {} ELSE {e})
                 /\ UNCHANGED <<command, config_written>>
        ELSE /\ read_loop' = "idle"
             /\ command' = {}
             /\ config_written' = {}
             /\ raised' = {}
             /\ calls' = <<>>
             /\ UNCHANGED <<wire, command_status>>
    /\ UNCHANGED <<state, enabled_substate, drives_enabled, connected,
                   teardown_pending, orphaned, telemetry_loop_task, commands_read>>

\* The CommandStatus write completes: the loop reads again while connected.
StatusWritten ==
    /\ read_loop = "status_drain"
    /\ read_loop' = IF connected THEN "read" ELSE "idle"
    /\ command' = {}
    /\ command_status' = {}
    /\ config_written' = {}
    /\ raised' = {}
    /\ calls' = <<>>
    /\ UNCHANGED <<state, enabled_substate, drives_enabled, connected,
                   teardown_pending, orphaned, telemetry_loop_task, commands_read, wire>>

\* The read of a Command fails because the client is gone: the read loop ends.
ReadFails ==
    /\ read_loop = "read"
    /\ ~connected
    /\ read_loop' = "idle"
    /\ UNCHANGED <<state, enabled_substate, drives_enabled, connected,
                   teardown_pending, orphaned, telemetry_loop_task, command, command_status,
                   config_written, raised, calls, commands_read, wire>>

(***************************************************************************)
(* The publisher: telemetry_loop.                                          *)
(***************************************************************************)
\* The number of frames of a kind on the wire.
FrameCount(frame_id) == Cardinality({i \in 1..Len(wire) : wire[i].frame_id = frame_id})

\* The task starts: if connected it writes the configuration.
TelemetryLoopBegin ==
    /\ telemetry_loop_task = "start"
    /\ wire' = wire \o telemetry_loop_writes("start", connected, TRUE)
    /\ telemetry_loop_task' = telemetry_loop_next("start", connected, TRUE)
    /\ UNCHANGED <<state, enabled_substate, drives_enabled, connected,
                   teardown_pending, orphaned, read_loop, command, command_status, config_written, raised,
                   calls, commands_read>>

\* One round of the while loop, after the write of the configuration or the
\* sleep: update_telemetry runs (updated) or raises, and the telemetry is written.
TelemetryLoopStep(updated) ==
    /\ telemetry_loop_task \in {"cfg_drain", "sleep"}
    /\ connected => FrameCount(TELEMETRY) < MaxTelemetry
    /\ wire' = wire \o telemetry_loop_writes(telemetry_loop_task, connected, updated)
    /\ telemetry_loop_task' = telemetry_loop_next(telemetry_loop_task, connected, updated)
    /\ UNCHANGED <<state, enabled_substate, drives_enabled, connected,
                   teardown_pending, orphaned, read_loop, command, command_status, config_written, raised,
                   calls, commands_read>>

Next ==
    \/ Connect /\ UNCHANGED observed
    \/ ClientDrop /\ UNCHANGED observed
    \/ Teardown /\ UNCHANGED observed
    \/ close_client /\ UNCHANGED observed
    \/ (\E s \in ControllerState : ExternalSetState(s)) /\ UNCHANGED observed
    \/ (\E cmd \in Commands, outcome \in MoveOutcomes : ReadAndDispatch(cmd, outcome))
           /\ UNCHANGED observed
    \/ EnableDrivesResume("none") /\ UNCHANGED observed
    \/ StatusWritten /\ UNCHANGED observed
    \/ ReadFails /\ UNCHANGED observed
    \/ TelemetryLoopBegin /\ UNCHANGED observed
    \/ (\E updated \in BOOLEAN : TelemetryLoopStep(updated)) /\ UNCHANGED observed
    \/ SecondConnect /\ UNCHANGED observed

Spec == Init /\ [][Next]_vars

\* The controller of a device whose end_run_command may raise.
NextFailingHook ==
    \/ Connect /\ UNCHANGED observed
    \/ ClientDrop /\ UNCHANGED observed
    \/ Teardown /\ UNCHANGED observed
    \/ close_client /\ UNCHANGED observed
    \/ (\E s \in ControllerState : ExternalSetState(s)) /\ UNCHANGED observed
    \/ (\E cmd \in Commands, outcome \in DeviceOutcomes : ReadAndDispatch(cmd, outcome))
           /\ UNCHANGED observed
    \/ (\E outcome \in {"none", "hook_failed"} : EnableDrivesResume(outcome)) /\ UNCHANGED observed
    \/ StatusWritten /\ UNCHANGED observed
    \/ ReadFails /\ UNCHANGED observed
    \/ TelemetryLoopBegin /\ UNCHANGED observed
    \/ (\E updated \in BOOLEAN : TelemetryLoopStep(updated)) /\ UNCHANGED observed
    \/ SecondConnect /\ UNCHANGED observed

SpecFailingHook == Init /\ [][NextFailingHook]_vars

\* The controller of a device whose method may raise CommandError().
NextBareError ==
    \/ Connect /\ UNCHANGED observed
    \/ ClientDrop /\ UNCHANGED observed
    \/ Teardown /\ UNCHANGED observed
    \/ close_client /\ UNCHANGED observed
    \/ (\E s \in ControllerState : ExternalSetState(s)) /\ UNCHANGED observed
    \/ (\E cmd \in Commands, outcome \in BareOutcomes : ReadAndDispatch(cmd, outcome))
           /\ UNCHANGED observed
    \/ EnableDrivesResume("none") /\ UNCHANGED observed
    \/ StatusWritten /\ UNCHANGED observed
    \/ ReadFails /\ UNCHANGED observed
    \/ TelemetryLoopBegin /\ UNCHANGED observed
    \/ (\E updated \in BOOLEAN : TelemetryLoopStep(updated)) /\ UNCHANGED observed
    \/ SecondConnect /\ UNCHANGED observed

SpecBareError == Init /\ [][NextBareError]_vars

(***************************************************************************)
(* A session as its client sees it: the client sends state commands, and   *)
(* what the Telemetry records show and whether a second client was turned  *)
(* away is recorded.  The event loop runs a task that is ready, so the     *)
(* telemetry loop takes its next step once it can.                         *)
(***************************************************************************)
SessionCommands == {c \in Commands : c.code = SET_STATE /\ c.counter = 1}

\* A step that writes a Telemetry record.
TelemetryStep == FrameCount(TELEMETRY)' = FrameCount(TELEMETRY) + 1

SessionConnect ==
    /\ Connect
    /\ telemetry_written' = {}
    /\ enable_acked' = FALSE
    /\ rejected' = FALSE
    /\ UNCHANGED not_session

SessionSecondConnect ==
    /\ SecondConnect
    /\ rejected' = TRUE
    /\ UNCHANGED <<telemetry_written, enable_acked, not_session>>

SessionReadAndDispatch(cmd) ==
    /\ ReadAndDispatch(cmd, "none")
    /\ enable_acked' = (\/ enable_acked
                        \/ /\ get_command_key(cmd) = <<SET_STATE, ENABLE>>
                           /\ \E w \in command_status' : w.status = ACK)
    /\ UNCHANGED <<telemetry_written, rejected, not_session>>

SessionTelemetryLoopBegin == TelemetryLoopBegin /\ UNCHANGED observed

SessionTelemetryLoopStep ==
    /\ \E updated \in BOOLEAN : TelemetryLoopStep(updated)
    /\ IF TelemetryStep
       THEN telemetry_written' = {telemetry_record(Engine)} /\ enable_acked' = FALSE
       ELSE UNCHANGED <<telemetry_written, enable_acked>>
    /\ UNCHANGED <<rejected, not_session>>

NextSession ==
    \/ SessionConnect
    \/ SessionSecondConnect
    \/ ClientDrop /\ UNCHANGED observed
    \/ Teardown /\ UNCHANGED observed
    \/ close_client /\ UNCHANGED observed
    \/ (\E s \in ControllerState : ExternalSetState(s)) /\ UNCHANGED observed
    \/ \E cmd \in SessionCommands : SessionReadAndDispatch(cmd)
    \/ StatusWritten /\ UNCHANGED observed
    \/ ReadFails /\ UNCHANGED observed
    \/ SessionTelemetryLoopBegin
    \/ SessionTelemetryLoopStep

SpecSession ==
    /\ Init
    /\ [][NextSession]_vars
    /\ WF_vars(SessionTelemetryLoopBegin)
    /\ WF_vars(SessionTelemetryLoopStep)

(***************************************************************************)
(* A session of a client that switches the drives: the last Config record  *)
(* written on the connection is recorded, and whether the CommandStatus of *)
(* a command whose method was awaiting could not be written because the    *)
(* client had gone.                                                        *)
(***************************************************************************)
DrivesCommands == {c \in Commands : c.code \in {ENABLE_DRIVES, SET_STATE} /\ c.counter = 1}

DrivesConnect ==
    /\ Connect
    /\ last_config' = {}
    /\ UNCHANGED <<write_failed, not_drives>>

DrivesReadAndDispatch(cmd) ==
    /\ ReadAndDispatch(cmd, "none")
    /\ last_config' = (IF config_written' # {} THEN config_written' ELSE last_config)
    /\ UNCHANGED <<write_failed, not_drives>>

DrivesEnableDrivesResume ==
    /\ EnableDrivesResume("none")
    /\ write_failed' = (write_failed \/ ~connected)
    /\ UNCHANGED <<last_config, not_drives>>

DrivesTelemetryLoopBegin ==
    /\ TelemetryLoopBegin
    /\ last_config' = (IF FrameCount(CONFIG)' > FrameCount(CONFIG)
                       THEN {write_config(Engine)} ELSE last_config)
    /\ UNCHANGED <<write_failed, not_drives>>

NextDrives ==
    \/ DrivesConnect
    \/ ClientDrop /\ UNCHANGED observed
    \/ Teardown /\ UNCHANGED observed
    \/ close_client /\ UNCHANGED observed
    \/ \E cmd \in DrivesCommands : DrivesReadAndDispatch(cmd)
    \/ DrivesEnableDrivesResume
    \/ StatusWritten /\ UNCHANGED observed
    \/ ReadFails /\ UNCHANGED observed
    \/ DrivesTelemetryLoopBegin
    \/ (\E updated \in BOOLEAN : TelemetryLoopStep(updated)) /\ UNCHANGED observed

SpecDrives == Init /\ [][NextDrives]_vars

(***************************************************************************)
(* SimpleCsc in simulation, started with initial_state ENABLED: it is the  *)
(* client of the mock controller.  It connects, reads the Config and the   *)
(* Telemetry records and publishes events from them (config_callback,      *)
(* telemetry_callback), enables the controller, and reacts to what a test  *)
(* then does to the mock controller: set_state(FAULT), close_client, or    *)
(* clearing DDS_COMMAND_SOURCE in telemetry.application_status.            *)
(***************************************************************************)
\* The CSC as its callbacks read and change it.
Csc == [summary_state |-> summary_state, error_code |-> error_code,
        evt_controllerState |-> evt_controllerState,
        evt_commandableByDDS |-> evt_commandableByDDS]

\* set_write of an event: the event is published if its data changed.
set_write(evt, data) ==
    IF Len(evt) > 0 /\ evt[Len(evt)] = data THEN evt ELSE Append(evt, data)

\* The Telemetry record as the client reads it: state, enabled_substate and
\* application_status of self.telemetry at the write.
telemetry_frame(eng, status) ==
    [frame_id |-> TELEMETRY, state |-> telemetry_record(eng).state,
     enabled_substate |-> telemetry_record(eng).enabled_substate,
     application_status |-> status]

\* The Config record as the client reads it.
config_frame(eng) == [frame_id |-> CONFIG, drives_enabled |-> write_config(eng).drives_enabled]

\* The records the client is sent for the frames a step of telemetry_loop wrote.
frames_sent(frames, eng, status) ==
    [i \in 1..Len(frames) |->
        IF frames[i].frame_id = CONFIG THEN config_frame(eng) ELSE telemetry_frame(eng, status)]

\* The record the client is sent for the CommandStatus written.
status_frames_sent(ws) ==
    IF ws = {} THEN <<>>
    ELSE <<[frame_id |-> COMMAND_STATUS, status |-> (CHOOSE w \in ws : TRUE).status]>>

\* config_callback: it publishes the configuration and commandableByDDS(state=True).
config_callback(csc, config) == [csc EXCEPT !.evt_commandableByDDS = {TRUE}]

\* telemetry_callback that publishes controllerState only.
telemetry_callback_state_only(csc, telemetry) ==
    [csc EXCEPT !.evt_controllerState =
                    set_write(@, [controllerState |-> telemetry.state,
                                  enabledSubstate |-> telemetry.enabled_substate])]

\* telemetry_callback that publishes commandableByDDS only.
telemetry_callback_commandable_only(csc, telemetry) ==
    [csc EXCEPT !.evt_commandableByDDS =
                    {DDS_COMMAND_SOURCE \in telemetry.application_status}]

\* telemetry_callback: it publishes controllerState with the state and the
\* substate of the telemetry, and commandableByDDS with whether
\* DDS_COMMAND_SOURCE is set in its application_status.
telemetry_callback(csc, telemetry) ==
    [csc EXCEPT !.evt_controllerState =
                    set_write(@, [controllerState |-> telemetry.state,
                                  enabledSubstate |-> telemetry.enabled_substate]),
                !.evt_commandableByDDS =
                    {DDS_COMMAND_SOURCE \in telemetry.application_status}]

\* fault: the CSC goes to summary state FAULT with the error code, unless it is
\* in FAULT already.
fault(csc, code) ==
    IF csc.summary_state = State_FAULT THEN csc
    ELSE [csc EXCEPT !.summary_state = State_FAULT, !.error_code = code]

\* What the CSC does with a Telemetry record: telemetry_callback, then FAULT if
\* the controller is in FAULT, and DISABLED if it is enabled and not commandable.
basic_telemetry_callback(csc, telemetry) ==
    LET c == telemetry_callback(csc, telemetry)
    IN  IF telemetry.state = FAULT THEN fault(c, CONTROLLER_FAULT)
        ELSE IF c.summary_state = State_ENABLED /\ c.evt_commandableByDDS = {FALSE}
        THEN [c EXCEPT !.summary_state = State_DISABLED]
        ELSE c

\* The enable command the CSC sends.
EnableCommand == [code |-> SET_STATE, counter |-> 1, param1 |-> Param1(ENABLE, FALSE)]

\* The CSC connects to the mock controller.
CscConnect ==
    /\ csc_phase = "start"
    /\ Connect
    /\ csc_phase' = "wait_telemetry"
    /\ inbox' = <<>>
    /\ client_telemetry' = {}
    /\ UNCHANGED <<application_status, summary_state, error_code, evt_controllerState,
                   evt_commandableByDDS, stimulus>>

CscTelemetryLoopBegin ==
    /\ TelemetryLoopBegin
    /\ inbox' = inbox \o frames_sent(telemetry_loop_writes("start", connected, TRUE),
                                      Engine, application_status)
    /\ UNCHANGED <<application_status, summary_state, error_code, evt_controllerState,
                   evt_commandableByDDS, csc_phase, stimulus, client_telemetry>>

CscTelemetryLoopStep ==
    /\ TelemetryLoopStep(TRUE)
    /\ inbox' = inbox \o frames_sent(telemetry_loop_writes(telemetry_loop_task, connected, TRUE),
                                      Engine, application_status)
    /\ UNCHANGED <<application_status, summary_state, error_code, evt_controllerState,
                   evt_commandableByDDS, csc_phase, stimulus, client_telemetry>>

\* The phases in which the client of the CSC is connected.
CscConnected == {"wait_telemetry", "enable", "wait_ack", "running"}

\* The client reads the next record and calls the callback for it; the CSC
\* enables the controller once it has read a Telemetry record, and the command
\* is done when its ACK is read.
CscReceive ==
    /\ csc_phase \in CscConnected
    /\ inbox # <<>>
    /\ inbox' = Tail(inbox)
    /\ LET c == CASE Head(inbox).frame_id = CONFIG -> config_callback(Csc, Head(inbox))
                  [] Head(inbox).frame_id = TELEMETRY ->
                         basic_telemetry_callback(Csc, Head(inbox))
                  [] OTHER -> Csc
       IN  /\ summary_state' = c.summary_state
           /\ error_code' = c.error_code
           /\ evt_controllerState' = c.evt_controllerState
           /\ evt_commandableByDDS' = c.evt_commandableByDDS
    /\ csc_phase' =
          CASE csc_phase = "wait_telemetry" /\ Head(inbox).frame_id = TELEMETRY -> "enable"
            [] /\ csc_phase = "wait_ack"
               /\ Head(inbox).frame_id = COMMAND_STATUS
               /\ Head(inbox).status = ACK -> "running"
            [] OTHER -> csc_phase
    /\ client_telemetry' = (IF Head(inbox).frame_id = TELEMETRY
                            THEN {Head(inbox)} ELSE client_telemetry)
    /\ UNCHANGED <<controller_vars, application_status, stimulus>>

\* The CSC sends the enable command and the mock controller reads it.
CscEnable ==
    /\ csc_phase = "enable"
    /\ ReadAndDispatch(EnableCommand, "none")
    /\ csc_phase' = "wait_ack"
    /\ inbox' = inbox \o status_frames_sent(command_status')
    /\ UNCHANGED <<application_status, summary_state, error_code, evt_controllerState,
                   evt_commandableByDDS, stimulus, client_telemetry>>

\* The CSC is enabled, and so is the controller: a test acts on the mock controller.
CscReady ==
    /\ stimulus = "none"
    /\ csc_phase = "running"
    /\ summary_state = State_ENABLED
    /\ connected
    /\ state = ENABLED_STATE

\* self.csc.mock_ctrl.set_state(ControllerState.FAULT)
CscSetStateFault ==
    /\ CscReady
    /\ FrameCount(TELEMETRY) < MaxTelemetry
    /\ ExternalSetState(FAULT)
    /\ stimulus' = "fault"
    /\ UNCHANGED <<application_status, summary_state, error_code, evt_controllerState,
                   evt_commandableByDDS, inbox, csc_phase, client_telemetry>>

\* await self.csc.mock_ctrl.close_client()
CscCloseClient ==
    /\ stimulus = "none"
    /\ csc_phase \in CscConnected
    /\ summary_state = State_ENABLED
    /\ connected
    /\ close_client
    /\ stimulus' = "close"
    /\ UNCHANGED <<application_status, summary_state, error_code, evt_controllerState,
                   evt_commandableByDDS, inbox, csc_phase, client_telemetry>>

\* self.csc.mock_ctrl.telemetry.application_status &= ~DDS_COMMAND_SOURCE
CscClearDdsCommandSource ==
    /\ CscReady
    /\ FrameCount(TELEMETRY) < MaxTelemetry
    /\ application_status' = application_status \ {DDS_COMMAND_SOURCE}
    /\ stimulus' = "eui"
    /\ UNCHANGED <<controller_vars, summary_state, error_code, evt_controllerState,
                   evt_commandableByDDS, inbox, csc_phase, client_telemetry>>

\* The client finds the connection closed while it should be connected: the CSC
\* goes to FAULT with CONNECTION_LOST.
CscConnectionLost ==
    /\ csc_phase \in CscConnected
    /\ ~connected
    /\ csc_phase' = "lost"
    /\ inbox' = <<>>
    /\ summary_state' = fault(Csc, CONNECTION_LOST).summary_state
    /\ error_code' = fault(Csc, CONNECTION_LOST).error_code
    /\ UNCHANGED <<controller_vars, application_status, evt_controllerState,
                   evt_commandableByDDS, stimulus, client_telemetry>>

\* The standby command of the CSC, in FAULT or DISABLED: the CSC goes to STANDBY,
\* resets its error code and disconnects from the controller.
CscStandby ==
    /\ summary_state \in {State_FAULT, State_DISABLED}
    /\ summary_state' = State_STANDBY
    /\ error_code' = 0
    /\ csc_phase' = "standby"
    /\ inbox' = <<>>
    /\ IF connected THEN ClientDrop ELSE UNCHANGED controller_vars
    /\ UNCHANGED <<application_status, evt_controllerState, evt_commandableByDDS, stimulus,
                   client_telemetry>>

NextCsc ==
    \/ CscConnect /\ UNCHANGED <<session_observed, drives_observed>>
    \/ CscTelemetryLoopBegin /\ UNCHANGED <<session_observed, drives_observed>>
    \/ CscTelemetryLoopStep /\ UNCHANGED <<session_observed, drives_observed>>
    \/ CscReceive /\ UNCHANGED <<session_observed, drives_observed>>
    \/ CscEnable /\ UNCHANGED <<session_observed, drives_observed>>
    \/ StatusWritten /\ UNCHANGED observed
    \/ CscSetStateFault /\ UNCHANGED <<session_observed, drives_observed>>
    \/ CscCloseClient /\ UNCHANGED <<session_observed, drives_observed>>
    \/ CscClearDdsCommandSource /\ UNCHANGED <<session_observed, drives_observed>>
    \/ CscConnectionLost /\ UNCHANGED <<session_observed, drives_observed>>
    \/ CscStandby /\ UNCHANGED <<session_observed, drives_observed>>
    \/ Teardown /\ UNCHANGED observed
    \/ ReadFails /\ UNCHANGED observed

\* The event loop runs a task that is ready and the client reads what it is sent.
SpecCsc ==
    /\ Init
    /\ [][NextCsc]_vars
    /\ WF_vars(CscTelemetryLoopBegin /\ UNCHANGED <<session_observed, drives_observed>>)
    /\ WF_vars(CscTelemetryLoopStep /\ UNCHANGED <<session_observed, drives_observed>>)
    /\ WF_vars(CscReceive /\ UNCHANGED <<session_observed, drives_observed>>)
    /\ WF_vars(CscEnable /\ UNCHANGED <<session_observed, drives_observed>>)
    /\ WF_vars(CscConnectionLost /\ UNCHANGED <<session_observed, drives_observed>>)

\* await self.csc.mock_ctrl.write_config(): the controller outputs its
\* configuration again while the client is connected, once.
CscWriteConfig ==
    /\ stimulus \in {"none", "eui"}
    /\ csc_phase \in CscConnected
    /\ connected
    /\ wire' = Append(wire, Frame(CONFIG, "write_config"))
    /\ inbox' = Append(inbox, config_frame(Engine))
    /\ stimulus' = (IF stimulus = "eui" THEN "eui_config" ELSE "config")
    /\ UNCHANGED <<state, enabled_substate, drives_enabled, connected, teardown_pending,
                   orphaned, telemetry_loop_task, read_loop, command, command_status,
                   config_written, raised, calls, commands_read>>
    /\ UNCHANGED <<application_status, summary_state, error_code, evt_controllerState,
                   evt_commandableByDDS, csc_phase, client_telemetry>>

NextCscConfig ==
    \/ NextCsc
    \/ CscWriteConfig /\ UNCHANGED <<session_observed, drives_observed>>

\* The CSC and a mock controller that outputs its configuration a second time.
SpecCscConfig ==
    /\ Init
    /\ [][NextCscConfig]_vars
    /\ WF_vars(CscTelemetryLoopBegin /\ UNCHANGED <<session_observed, drives_observed>>)
    /\ WF_vars(CscTelemetryLoopStep /\ UNCHANGED <<session_observed, drives_observed>>)
    /\ WF_vars(CscReceive /\ UNCHANGED <<session_observed, drives_observed>>)
    /\ WF_vars(CscEnable /\ UNCHANGED <<session_observed, drives_observed>>)
    /\ WF_vars(CscConnectionLost /\ UNCHANGED <<session_observed, drives_observed>>)

(***************************************************************************)
(* Properties.                                                             *)
(***************************************************************************)
\* C1: on a connection, every Command read is answered by exactly one
\* CommandStatus, and the CommandStatus of a Command is written before the next
\* Command is read: whenever the loop is about to read (or waits for the write of
\* a status to complete) there are as many CommandStatus frames on the wire as
\* Commands read; while a method awaits, exactly the Command in hand is unanswered.
C1_OneStatusPerCommand ==
    /\ read_loop \in {"read", "status_drain"} => FrameCount(COMMAND_STATUS) = commands_read
    /\ read_loop = "status_drain" => Cardinality(command_status) = 1
    /\ read_loop = "cfg_drain" => FrameCount(COMMAND_STATUS) + 1 = commands_read
    /\ read_loop = "idle" => commands_read - FrameCount(COMMAND_STATUS) \in {0, 1}

\* Two Commands were read and answered on one connection, the second with NO_ACK,
\* with Telemetry written on the same connection.
C1_Witness ==
    /\ connected
    /\ commands_read = MaxCommands
    /\ FrameCount(COMMAND_STATUS) = MaxCommands
    /\ FrameCount(TELEMETRY) > 0
    /\ \E w \in command_status : w.status = NO_ACK

\* C2: a CommandStatus carries the counter of the Command it answers, ACK or
\* NO_ACK, whatever was written since the Command was read.
C2_CounterEchoed ==
    /\ command_status # {} => command # {}
    /\ \A w \in command_status : \A c \in command : w.counter = c.counter

\* The ACK of an enable_drives Command with the largest counter, written after the
\* Config of the command and a Telemetry record of the publisher.
C2_Witness ==
    /\ Len(wire) >= 3
    /\ wire[Len(wire) - 2] = Frame(CONFIG, "do_enable_drives")
    /\ wire[Len(wire) - 1].frame_id = TELEMETRY
    /\ \E c \in command, w \in command_status :
          c.code = ENABLE_DRIVES /\ c.counter = MaxCounter /\ w.status = ACK

\* A step that reads a Command (and runs it to its first suspension).
ReadStep == commands_read' = commands_read + 1

IsEnable(c) == c.code = SET_STATE /\ c.param1.int = ENABLE

IsStandby(c) == c.code = SET_STATE /\ c.param1.int = STANDBY_PARAM

IsClearError(c) == c.code = SET_STATE /\ c.param1.int = CLEAR_ERROR

\* The state precondition of a built-in command is not met in state st.
PreconditionUnmet(c, st) ==
    \/ IsEnable(c) /\ st # STANDBY
    \/ IsStandby(c) /\ st # ENABLED_STATE
    \/ IsClearError(c) /\ st = ENABLED_STATE

\* C3: a command whose state precondition is not met is answered with NO_ACK and
\* a non-empty reason, and leaves state and enabled_substate as they were.
C3_RejectedLeavesState ==
    [][ReadStep =>
        \A c \in command' :
            PreconditionUnmet(c, state) =>
                /\ Cardinality(command_status') = 1
                /\ \A w \in command_status' : w.status = NO_ACK /\ Len(w.reason) > 0
                /\ state' = state
                /\ enabled_substate' = enabled_substate]_vars

\* enable was answered with NO_ACK in FAULT, with the state in the reason.
C3_Witness ==
    /\ state = FAULT
    /\ \E c \in command, w \in command_status :
          IsEnable(c) /\ w.status = NO_ACK /\ Len(w.reason) > 1 /\ w.reason[2] = FAULT

\* The dispatch key, (code, int(param1)) for the two state opcodes and the code
\* alone for the others, and the keys that have a method.
C4_Key(c) ==
    IF c.code \in {SET_STATE, SET_ENABLED_SUBSTATE} THEN <<c.code, c.param1.int>> ELSE <<c.code>>

C4_Registered ==
    {<<SET_STATE, ENABLE>>, <<SET_STATE, STANDBY_PARAM>>, <<SET_STATE, CLEAR_ERROR>>,
     <<ENABLE_DRIVES>>, <<MOVE>>}

\* C4: a command whose key is not in command_table is answered with NO_ACK with a
\* reason that names its code; no method and no end_run_command is called, and
\* state, enabled_substate and Config are unchanged.
C4_UnrecognizedRejected ==
    [][ReadStep =>
        \A c \in command' :
            C4_Key(c) \notin C4_Registered =>
                /\ Cardinality(command_status') = 1
                /\ \A w \in command_status' :
                      /\ w.status = NO_ACK
                      /\ \E i \in 1..Len(w.reason) : w.reason[i] = c.code
                /\ calls' = <<>>
                /\ Engine' = Engine]_vars

\* SET_STATE with a parameter that is no key was answered with NO_ACK naming it.
C4_Witness ==
    \E c \in command, w \in command_status :
        /\ c.code = SET_STATE
        /\ c.param1.int = START
        /\ w.status = NO_ACK
        /\ Len(w.reason) > 1
        /\ w.reason[2] = SET_STATE
        /\ calls = <<>>

\* C5: enable is ACKed exactly when the state is STANDBY and then leaves ENABLED
\* with substate STATIONARY; standby is ACKed exactly when the state is ENABLED and
\* then leaves STANDBY; in every other state they are answered with NO_ACK.
C5_EnableStandby ==
    [][ReadStep =>
        \A c \in command' :
            /\ IsEnable(c) =>
                  /\ Cardinality(command_status') = 1
                  /\ \A w \in command_status' :
                        /\ w.status = (IF state = STANDBY THEN ACK ELSE NO_ACK)
                        /\ w.status = ACK =>
                              state' = ENABLED_STATE /\ enabled_substate' = STATIONARY
            /\ IsStandby(c) =>
                  /\ Cardinality(command_status') = 1
                  /\ \A w \in command_status' :
                        /\ w.status = (IF state = ENABLED_STATE THEN ACK ELSE NO_ACK)
                        /\ w.status = ACK => state' = STANDBY]_vars

\* standby was ACKed and left STANDBY.
C5_Witness ==
    /\ state = STANDBY
    /\ \E c \in command, w \in command_status : IsStandby(c) /\ w.status = ACK

\* C6: clear_error is ACKed in STANDBY and in FAULT and leaves STANDBY; in ENABLED
\* it is answered with NO_ACK and the state stays ENABLED; a second clear_error
\* would leave the state the first one left.
C6_ClearError ==
    [][ReadStep =>
        \A c \in command' :
            IsClearError(c) =>
                /\ Cardinality(command_status') = 1
                /\ \A w \in command_status' :
                      /\ state \in {STANDBY, FAULT} => w.status = ACK /\ state' = STANDBY
                      /\ state = ENABLED_STATE => w.status = NO_ACK /\ state' = ENABLED_STATE
                /\ do_clear_error(Engine', c).eng = Engine']_vars

\* clear_error was ACKed and left STANDBY.
C6_Witness ==
    /\ state = STANDBY
    /\ \E c \in command, w \in command_status : IsClearError(c) /\ w.status = ACK

\* C7: set_state(s) leaves substate STATIONARY for ENABLED and the "no substate"
\* value for every other state, so in every reachable state the substate is the
\* one of the state.
C7_SubstateOfState ==
    /\ \A s \in ControllerState :
          set_state(Engine, s).enabled_substate
              = (IF s = ENABLED_STATE THEN STATIONARY ELSE NoSubstate)
    /\ enabled_substate = (IF state = ENABLED_STATE THEN STATIONARY ELSE NoSubstate)

\* The controller left ENABLED for FAULT while a client is connected.
C7_Witness ==
    /\ connected
    /\ commands_read > 0
    /\ state = FAULT
    /\ enabled_substate = NoSubstate

\* The frames the publisher wrote on the current connection, in order.
PublisherFrames == SelectSeq(wire, LAMBDA f : f.by = "telemetry_loop")

\* C8: on a connection the publisher writes the Config once, first, and after it
\* only Telemetry; nobody else writes Telemetry; while no client is connected
\* nothing is written; and a new connection starts a new telemetry loop, which
\* begins with the Config again.
C8_ConfigThenTelemetry ==
    /\ [](/\ Len(PublisherFrames) > 0 => PublisherFrames[1].frame_id = CONFIG
          /\ \A i \in 2..Len(PublisherFrames) : PublisherFrames[i].frame_id = TELEMETRY
          /\ \A i \in 1..Len(wire) :
                wire[i].frame_id = TELEMETRY => wire[i].by = "telemetry_loop")
    /\ [][~connected /\ ~connected' => wire' = wire]_vars
    /\ [][~connected /\ connected' => telemetry_loop_task' = "start"]_vars

\* A connection that follows an earlier one (drives_enabled was set by a command,
\* and no Command was read on this connection) got the Config and then Telemetry.
C8_Witness ==
    /\ connected
    /\ commands_read = 0
    /\ drives_enabled
    /\ PublisherFrames = <<Frame(CONFIG, "telemetry_loop"), Frame(TELEMETRY, "telemetry_loop"),
                           Frame(TELEMETRY, "telemetry_loop")>>

\* Everything but telemetry.state and telemetry.enabled_substate: a step that
\* leaves it unchanged is a call of set_state from outside the command path.
C9_Rest ==
    <<drives_enabled, connected, teardown_pending, orphaned, telemetry_loop_task, read_loop, command,
      command_status, config_written, raised, calls, commands_read, wire>>

\* C9: state, enabled_substate and Config.drives_enabled are the same after a
\* disconnect, after a reconnect and after every step the controller takes while
\* no client is connected: only a command of a connected client or an explicit
\* set_state changes them.
C9_EnginePersists ==
    [][(connected # connected' \/ ~connected) /\ C9_Rest' # C9_Rest => Engine' = Engine]_vars

\* A client has just connected again and finds ENABLED and the drives enabled,
\* as a command of an earlier connection left them.
C9_Witness ==
    /\ connected
    /\ commands_read = 0
    /\ wire = <<>>
    /\ read_loop = "read"
    /\ drives_enabled
    /\ state = ENABLED_STATE
    /\ enabled_substate = STATIONARY

\* C10, as stated: connect_callback calls set_state(initial_state), so every
\* connection starts in the initial state given at construction.
C10_StartsInInitialState == [][~connected /\ connected' => state' = initial_state]_vars

\* C10, amended: set_state(initial_state) is called by the constructor, and a
\* new connection leaves state and enabled_substate as they were before it.
C10_StateKeptOnConnect ==
    /\ state = initial_state
    /\ enabled_substate = (IF initial_state = ENABLED_STATE THEN STATIONARY ELSE NoSubstate)
    /\ [][~connected /\ connected' =>
            state' = state /\ enabled_substate' = enabled_substate]_vars

\* A connection after an earlier one starts in a state other than the initial one.
C10_Witness ==
    /\ connected
    /\ commands_read = 0
    /\ wire = <<>>
    /\ telemetry_loop_task = "start"
    /\ drives_enabled
    /\ state # initial_state

IsEnableDrives(c) == c.code = ENABLE_DRIVES

\* The place of the last CommandStatus on the wire (0 when there is none).
LastStatus ==
    IF FrameCount(COMMAND_STATUS) = 0 THEN 0
    ELSE CHOOSE j \in 1..Len(wire) :
             /\ wire[j].frame_id = COMMAND_STATUS
             /\ \A k \in (j + 1)..Len(wire) : wire[k].frame_id # COMMAND_STATUS

\* C11: the step that reads enable_drives with param1 = v sets drives_enabled to
\* (v # 0) and writes a Config that carries this value, before its CommandStatus
\* and before every frame written after the read (so before the next Telemetry);
\* when the ACK of the command is on the wire, the Config of the command precedes
\* it, after the CommandStatus of the command before.
C11_ConfigImmediately ==
    /\ [][ReadStep =>
            \A c \in command' :
                IsEnableDrives(c) =>
                    /\ drives_enabled' = (c.param1 # Param1(ZERO, FALSE))
                    /\ config_written' = {[drives_enabled |-> c.param1 # Param1(ZERO, FALSE)]}
                    /\ wire' = Append(wire, Frame(CONFIG, "do_enable_drives"))
                    /\ command_status' = {}]_vars
    /\ [](\A c \in command :
            IsEnableDrives(c) /\ command_status # {} =>
                /\ \A w \in command_status : w.status = ACK
                /\ \E i \in 1..(LastStatus - 1) :
                      /\ wire[i] = Frame(CONFIG, "do_enable_drives")
                      /\ \A k \in i..(LastStatus - 1) : wire[k].frame_id # COMMAND_STATUS)

\* enable_drives with param1 = 1 was ACKed; its Config was written between two
\* Telemetry records of the publisher, and the ACK after the second.
C11_Witness ==
    /\ drives_enabled
    /\ config_written = {[drives_enabled |-> TRUE]}
    /\ \E c \in command, w \in command_status :
          IsEnableDrives(c) /\ c.param1 = Param1(ENABLE, FALSE) /\ w.status = ACK
    /\ wire = <<Frame(CONFIG, "telemetry_loop"), Frame(TELEMETRY, "telemetry_loop"),
                Frame(CONFIG, "do_enable_drives"), Frame(TELEMETRY, "telemetry_loop"),
                Frame(COMMAND_STATUS, "read_and_dispatch")>>

\* C12: when run_command raises an exception that is no CommandError (from a
\* method, from end_run_command or from its own log line), the Command is answered
\* in the same step with one NO_ACK that echoes its counter and whose reason is
\* str(e), cut to the length of the field; the read loop goes on: once the status
\* is written it reads again while the client is connected, and every Command
\* read before is answered when it does.
C12_FailureAnswered ==
    /\ [][\A e \in raised' :
            raised = {} /\ e.type # "CommandError" =>
                /\ \A c \in command' :
                      command_status' = {[counter |-> c.counter, status |-> NO_ACK,
                                          duration |-> 0,
                                          reason |-> TruncateReason(StrOf(e))]}
                /\ read_loop' = "status_drain"
                /\ FrameCount(COMMAND_STATUS)' = FrameCount(COMMAND_STATUS) + 1]_vars
    /\ [][read_loop = "status_drain" /\ read_loop' # read_loop /\ connected =>
            read_loop' = "read"]_vars
    /\ [](read_loop = "read" => FrameCount(COMMAND_STATUS) = commands_read)

\* The second Command of a connection failed in its method with RuntimeError and
\* was answered with NO_ACK and the message of the error.
C12_Witness ==
    /\ connected
    /\ commands_read = MaxCommands
    /\ FrameCount(COMMAND_STATUS) = MaxCommands
    /\ raised = {OtherException("RuntimeError", <<"move failed">>)}
    /\ \E w \in command_status : w.status = NO_ACK /\ w.reason = <<"move failed">>

\* Everything but the telemetry loop task.
C13_Others ==
    <<state, enabled_substate, drives_enabled, connected, teardown_pending, orphaned, read_loop,
      command, command_status, config_written, raised, calls, commands_read, wire>>

\* C13: a round of telemetry_loop that fails (update_telemetry or the write raises)
\* while the client is connected ends the loop and changes nothing else: the read
\* loop, the Command in hand and the engine state are as before.  From then on no
\* Telemetry is written on this connection and the loop stays ended, while the read
\* loop goes on answering; a new connection starts a new telemetry loop.
C13_PublisherFailureContained ==
    /\ [][/\ telemetry_loop_task \in {"cfg_drain", "sleep"}
           /\ telemetry_loop_task' # telemetry_loop_task
           /\ connected /\ connected'
           /\ FrameCount(TELEMETRY)' = FrameCount(TELEMETRY)
           => telemetry_loop_task' = "done" /\ C13_Others' = C13_Others]_vars
    /\ [][telemetry_loop_task = "done" /\ connected /\ connected' =>
            /\ telemetry_loop_task' = "done"
            /\ FrameCount(TELEMETRY)' = FrameCount(TELEMETRY)]_vars
    /\ [](telemetry_loop_task = "done" /\ connected =>
            /\ read_loop # "idle"
            /\ read_loop \in {"read", "status_drain"} =>
                   FrameCount(COMMAND_STATUS) = commands_read)
    /\ [][~connected /\ connected' => telemetry_loop_task' = "start"]_vars

\* The telemetry loop has ended after one Telemetry record, and on the same
\* connection a Command is being answered with ACK.
C13_Witness ==
    /\ connected
    /\ telemetry_loop_task = "done"
    /\ FrameCount(TELEMETRY) = 1
    /\ read_loop = "status_drain"
    /\ wire[Len(wire)].frame_id = COMMAND_STATUS
    /\ wire[Len(wire) - 1].frame_id = TELEMETRY
    /\ \E w \in command_status : w.status = ACK

\* C14: once the server has handled a disconnect (the client went away and
\* connect_callback ran, or close_client was called) no telemetry loop is left:
\* the task is done and none runs out of sight.  While no client is connected no
\* step starts a telemetry loop, whatever is called and however often: calling
\* connect_callback again leaves what the first call left.
C14_PublisherCancelled ==
    /\ [](~connected /\ ~teardown_pending => telemetry_loop_task = "done" /\ ~orphaned)
    /\ [][~connected' /\ telemetry_loop_task' # telemetry_loop_task =>
            telemetry_loop_task' = "done"]_vars
    /\ [](LET once == connect_callback(Engine, FALSE, telemetry_loop_task)
              twice == connect_callback(once.eng, FALSE, once.telemetry_loop_task)
          IN  twice = once)

\* The client of a connection with one Telemetry record and one Command is gone
\* and the server has handled it: both loops have ended.
C14_Witness ==
    /\ ~connected
    /\ ~teardown_pending
    /\ telemetry_loop_task = "done"
    /\ read_loop = "idle"
    /\ FrameCount(TELEMETRY) = 1
    /\ commands_read = 1

\* C15: in every CommandStatus written the reason is non-empty exactly when the
\* status is NO_ACK.
C15_ReasonIffNoAck ==
    \A w \in command_status : (Len(w.reason) > 0) <=> (w.status = NO_ACK)

\* A step that writes the CommandStatus of the Command in hand.
StatusStep == command_status = {} /\ command_status' # {}

\* C16: a Command for which run_command raises nothing is answered with one ACK
\* with a duration >= 0, which is 0 unless a device method returned another; each
\* built-in command whose precondition holds is so ACKed with duration 0.
C16_SuccessAcked ==
    /\ [][StatusStep /\ raised' = {} =>
            /\ Cardinality(command_status') = 1
            /\ FrameCount(COMMAND_STATUS)' = FrameCount(COMMAND_STATUS) + 1
            /\ \A w \in command_status', c \in command' :
                  /\ w.status = ACK
                  /\ w.duration >= 0
                  /\ c.code # MOVE => w.duration = 0]_vars
    /\ [][ReadStep =>
            \A c \in command' :
                (IsEnable(c) \/ IsStandby(c) \/ IsClearError(c)) /\ ~PreconditionUnmet(c, state)
                    => \E w \in command_status' : w.status = ACK /\ w.duration = 0]_vars
    /\ [](\A c \in command, w \in command_status :
            IsEnableDrives(c) => w.status = ACK /\ w.duration = 0)

\* A device command whose method returned no duration was ACKed with duration 0
\* after a Command of the same connection.
C16_Witness ==
    /\ commands_read = MaxCommands
    /\ raised = {}
    /\ calls = <<"do_move", "end_run_command">>
    /\ \E c \in command, w \in command_status :
          c.code = MOVE /\ w.status = ACK /\ w.duration = 0

\* The method of a Command whose key is registered.
C17_Method(c) ==
    CASE IsEnable(c) -> "do_enable"
      [] IsStandby(c) -> "do_standby"
      [] IsClearError(c) -> "do_clear_error"
      [] IsEnableDrives(c) -> "do_enable_drives"
      [] c.code = MOVE -> "do_move"

\* C17: when the CommandStatus of a Command is written, run_command has called
\* nothing if the key of the Command is not registered; otherwise it has called
\* the method of the key and then either nothing more, the method having raised,
\* or end_run_command, once.  A built-in method raises exactly when its
\* precondition is unmet, and whenever run_command raised nothing the hook ran.
C17_HookOnce ==
    [][StatusStep =>
        \A c \in command' :
            /\ C4_Key(c) \notin C4_Registered => calls' = <<>>
            /\ C4_Key(c) \in C4_Registered =>
                  /\ \/ calls' = <<C17_Method(c)>> /\ raised' # {}
                     \/ calls' = <<C17_Method(c), "end_run_command">>
                  /\ IsEnable(c) \/ IsStandby(c) \/ IsClearError(c) =>
                        (PreconditionUnmet(c, state) <=> calls' = <<C17_Method(c)>>)
                  /\ IsEnableDrives(c) => calls' = <<C17_Method(c), "end_run_command">>
                  /\ raised' = {} => calls' = <<C17_Method(c), "end_run_command">>]_vars

\* enable was rejected in FAULT: its method was called and end_run_command was not.
C17_Witness ==
    /\ state = FAULT
    /\ calls = <<"do_enable">>
    /\ \E e \in raised : e.type = "CommandError"
    /\ \E c \in command, w \in command_status : IsEnable(c) /\ w.status = NO_ACK

\* C20: a step that enters FAULT is a call of set_state from outside the command
\* path: it changes nothing but state and substate, so no Command enters FAULT.
\* In FAULT, enable and standby are answered with NO_ACK and leave FAULT, and a
\* step of the controller that leaves FAULT reads clear_error, ACKs it and leaves
\* STANDBY.
C20_FaultOnlyExternal ==
    /\ [][state # FAULT /\ state' = FAULT => C9_Rest' = C9_Rest]_vars
    /\ [][ReadStep /\ state = FAULT =>
            \A c \in command' :
                IsEnable(c) \/ IsStandby(c) =>
                    /\ state' = FAULT
                    /\ \A w \in command_status' : w.status = NO_ACK
                    /\ command_status' # {}]_vars
    /\ [][state = FAULT /\ state' # FAULT /\ C9_Rest' # C9_Rest =>
            /\ ReadStep
            /\ state' = STANDBY
            /\ \A c \in command' : IsClearError(c)
            /\ \A w \in command_status' : w.status = ACK
            /\ command_status' # {}]_vars

\* In FAULT, the second Command of a connection, standby, was answered NO_ACK.
C20_Witness ==
    /\ state = FAULT
    /\ commands_read = MaxCommands
    /\ \E c \in command, w \in command_status : IsStandby(c) /\ w.status = NO_ACK

C19_NextTelemetryShowsEnable ==
    [][TelemetryStep /\ enable_acked =>
        telemetry_written' = {[state |-> ENABLED_STATE, enabled_substate |-> STATIONARY]}]_vars

\* C19, amended: a Telemetry record carries the state and the substate the
\* controller has when the record is written, so the record that follows the ACK
\* of enable shows ENABLED and STATIONARY if the state is still ENABLED then; and
\* while the client is connected and the telemetry loop has not ended, another
\* Telemetry record is written (up to MaxTelemetry of them).
C19_TelemetryShowsState ==
    /\ [][TelemetryStep =>
            /\ telemetry_written' = {[state |-> state, enabled_substate |-> enabled_substate]}
            /\ state' = state
            /\ enabled_substate' = enabled_substate]_vars
    /\ [][TelemetryStep /\ enable_acked /\ state = ENABLED_STATE =>
            telemetry_written' = {[state |-> ENABLED_STATE,
                                   enabled_substate |-> STATIONARY]}]_vars
    /\ \A k \in 0..(MaxTelemetry - 1) :
          (connected /\ telemetry_loop_task \in {"cfg_drain", "sleep"}
                     /\ FrameCount(TELEMETRY) = k)
              ~> (FrameCount(TELEMETRY) > k \/ ~connected \/ telemetry_loop_task = "done")

\* The first Command of a connection left ENABLED and was answered, and the
\* Telemetry record written next shows ENABLED and STATIONARY.
C19_Witness ==
    /\ connected
    /\ commands_read = 1
    /\ state = ENABLED_STATE
    /\ wire = <<Frame(CONFIG, "telemetry_loop"), Frame(COMMAND_STATUS, "read_and_dispatch"),
                Frame(TELEMETRY, "telemetry_loop")>>
    /\ telemetry_written = {[state |-> ENABLED_STATE, enabled_substate |-> STATIONARY]}

\* C30: a Command whose method raises CommandError is answered with a NO_ACK,
\* with or without a message in the CommandError: the step that reads it writes
\* one CommandStatus with status NO_ACK.
C30_CommandErrorAnswered ==
    [][ReadStep /\ (\E e \in raised' : e.type = "CommandError") =>
        /\ Cardinality(command_status') = 1
        /\ \A w \in command_status' : w.status = NO_ACK]_vars

\* C29: enable_drives has no state precondition and touches the Config only: in
\* every controller state the step that reads it sets drives_enabled to
\* bool(param1), raises nothing and leaves state and enabled_substate as they were,
\* and the CommandStatus written for it when it resumes with the client connected
\* is an ACK; enable, standby and clear_error never change drives_enabled.
C29_EnableDrivesAnyState ==
    [][/\ ReadStep =>
            \A c \in command' :
                /\ IsEnableDrives(c) =>
                      /\ drives_enabled' = BoolOf(c.param1)
                      /\ state' = state
                      /\ enabled_substate' = enabled_substate
                      /\ raised' = {}
                      /\ read_loop' = "cfg_drain"
                /\ (IsEnable(c) \/ IsStandby(c) \/ IsClearError(c)) =>
                      drives_enabled' = drives_enabled
       /\ (read_loop = "cfg_drain" /\ connected /\ read_loop' # "cfg_drain") =>
            /\ Cardinality(command_status') = 1
            /\ \A w \in command_status' : w.status = ACK
            /\ state' = state
            /\ enabled_substate' = enabled_substate
            /\ drives_enabled' = drives_enabled]_vars

\* enable_drives was ACKed in the FAULT state and has set drives_enabled.
C29_Witness ==
    /\ state = FAULT
    /\ drives_enabled
    /\ \E c \in command, w \in command_status : IsEnableDrives(c) /\ w.status = ACK

\* C26: at most one telemetry loop is live.  No loop runs beside the one that
\* telemetry_loop_task holds; a loop is created only by the step that connects a
\* client, when the loop held before is done; and the publisher's records of a
\* connection grow only while a client is connected and the loop held is not done
\* (a cancelled loop writes nothing), and start empty on a new connection.
C26_OneTelemetryLoop ==
    [][/\ ~orphaned'
       /\ (telemetry_loop_task # "start" /\ telemetry_loop_task' = "start") =>
             /\ telemetry_loop_task = "done"
             /\ ~connected
             /\ connected'
       /\ PublisherFrames' # PublisherFrames =>
             \/ /\ connected
                /\ connected'
                /\ telemetry_loop_task # "done"
                /\ Len(PublisherFrames') > Len(PublisherFrames)
                /\ SubSeq(PublisherFrames', 1, Len(PublisherFrames)) = PublisherFrames
             \/ /\ ~connected
                /\ connected'
                /\ PublisherFrames' = <<>>]_vars

\* A later connection (drives_enabled was set on an earlier one) whose loop has
\* written its own Config and one Telemetry record and sleeps.
C26_Witness ==
    /\ connected
    /\ commands_read = 0
    /\ drives_enabled
    /\ telemetry_loop_task = "sleep"
    /\ PublisherFrames = <<Frame(CONFIG, "telemetry_loop"), Frame(TELEMETRY, "telemetry_loop")>>

\* C27: on a connection, a Telemetry record is written only after the publisher
\* has written its Config record on that connection, whatever the command loop
\* has written before (a CommandStatus, the Config of enable_drives).
C27_ConfigBeforeTelemetry ==
    \A i \in 1..Len(wire) :
        wire[i].frame_id = TELEMETRY =>
            \E j \in 1..(i - 1) : wire[j] = Frame(CONFIG, "telemetry_loop")

\* The command loop wrote the Config of enable_drives and its CommandStatus before
\* the publisher wrote its Config; a Telemetry record followed.
C27_Witness ==
    /\ Len(wire) >= 4
    /\ wire[1] = Frame(CONFIG, "do_enable_drives")
    /\ wire[2].frame_id = COMMAND_STATUS
    /\ wire[3] = Frame(CONFIG, "telemetry_loop")
    /\ wire[4].frame_id = TELEMETRY

\* The write of the CommandStatus fails: the method that was awaiting resumes
\* without a client.
C25_WriteFails ==
    read_loop = "cfg_drain" /\ ~connected /\ ~connected' /\ read_loop' # "cfg_drain"

C28_ConfigNotStale ==
    /\ \A c \in last_config : c.drives_enabled = drives_enabled
    /\ \A cmd \in command, w \in command_status :
          (IsEnableDrives(cmd) /\ w.status = ACK) =>
              last_config = {[drives_enabled |-> BoolOf(cmd.param1)]}

\* The publisher wrote its Config after the Config of enable_drives and before
\* the ACK of that command.
C28_Witness ==
    /\ wire = <<Frame(CONFIG, "do_enable_drives"), Frame(CONFIG, "telemetry_loop"),
                Frame(COMMAND_STATUS, "read_and_dispatch")>>
    /\ last_config = {[drives_enabled |-> TRUE]}
    /\ \E cmd \in command, w \in command_status : IsEnableDrives(cmd) /\ w.status = ACK

\* A controllerState event with controllerState FAULT has been published.
FaultPublished ==
    \E i \in 1..Len(evt_controllerState) : evt_controllerState[i].controllerState = FAULT

\* C21: when set_state(FAULT) is called on the mock controller while the CSC is
\* connected and ENABLED, the CSC comes to have published controllerState FAULT
\* and to be in summary state FAULT with error code CONTROLLER_FAULT; it reports
\* CONTROLLER_FAULT only with that event published.
C21_ControllerFaultReported ==
    /\ [](error_code = CONTROLLER_FAULT => FaultPublished)
    /\ (stimulus = "fault" /\ csc_phase = "running" /\ summary_state = State_ENABLED)
           ~> (/\ FaultPublished
               /\ summary_state = State_FAULT
               /\ error_code = CONTROLLER_FAULT)

\* The CSC was enabled, set_state(FAULT) was called, and the CSC is in FAULT with
\* CONTROLLER_FAULT, the last controllerState event being FAULT.
C21_Witness ==
    /\ stimulus = "fault"
    /\ summary_state = State_FAULT
    /\ error_code = CONTROLLER_FAULT
    /\ Len(evt_controllerState) > 1
    /\ evt_controllerState[Len(evt_controllerState)].controllerState = FAULT

\* C22: when close_client is called on the mock controller while the CSC is
\* ENABLED, the CSC comes to be in summary state FAULT with error code
\* CONNECTION_LOST; the CSC leaves that state only for STANDBY with error code 0,
\* and the standby command that takes it there is then possible.
C22_ConnectionLostRecoverable ==
    /\ (stimulus = "close" /\ summary_state = State_ENABLED)
           ~> (summary_state = State_FAULT /\ error_code = CONNECTION_LOST)
    /\ [][(/\ summary_state = State_FAULT
           /\ error_code = CONNECTION_LOST
           /\ <<summary_state, error_code>>' # <<summary_state, error_code>>) =>
              (summary_state' = State_STANDBY /\ error_code' = 0)]_vars
    /\ []((summary_state = State_FAULT /\ error_code = CONNECTION_LOST) =>
              ENABLED CscStandby)

\* After close_client the CSC went to FAULT with CONNECTION_LOST, and standby has
\* taken it to STANDBY with error code 0.
C22_Witness ==
    /\ stimulus = "close"
    /\ csc_phase = "standby"
    /\ summary_state = State_STANDBY
    /\ error_code = 0

\* The client of the CSC reads a Telemetry record.
TelemetryRead ==
    /\ inbox # <<>>
    /\ Head(inbox).frame_id = TELEMETRY
    /\ inbox' = Tail(inbox)
    /\ csc_phase' \in CscConnected

\* C23: telemetry_callback publishes commandableByDDS with the state that
\* DDS_COMMAND_SOURCE has in the application_status of the Telemetry record just
\* read; and when the flag is cleared in the mock controller's telemetry while the
\* CSC is ENABLED, the CSC comes to have published commandableByDDS False and to
\* be in summary state DISABLED, which it enters only with that event published.
C23_NotCommandableDisables ==
    /\ [][TelemetryRead =>
            evt_commandableByDDS' = {DDS_COMMAND_SOURCE \in Head(inbox).application_status}]_vars
    /\ [][(summary_state # State_DISABLED /\ summary_state' = State_DISABLED) =>
            evt_commandableByDDS' = {FALSE}]_vars
    /\ (stimulus = "eui" /\ summary_state = State_ENABLED)
           ~> (evt_commandableByDDS = {FALSE} /\ summary_state = State_DISABLED)

\* The flag was cleared and the CSC, having published commandableByDDS False, is
\* in DISABLED.
C23_Witness ==
    /\ stimulus = "eui"
    /\ application_status = {}
    /\ evt_commandableByDDS = {FALSE}
    /\ summary_state = State_DISABLED

\* The controllerState events of a start in simulation with initial state ENABLED.
C24_Standby == [controllerState |-> STANDBY, enabledSubstate |-> NoSubstate]

C24_Enabled == [controllerState |-> ENABLED_STATE, enabledSubstate |-> STATIONARY]

\* C24: the mock controller starts in STANDBY and becomes ENABLED by the enable
\* command only; until a test acts on the mock controller the controllerState
\* events published are STANDBY, then ENABLED with substate STATIONARY, and no
\* other; the first is published once the CSC has connected, the second once the
\* command is sent and a Telemetry record can still be written.
C24_StandbyThenEnabled ==
    /\ [](csc_phase = "start" => state = STANDBY)
    /\ [](stimulus = "none" =>
             evt_controllerState \in {<<>>, <<C24_Standby>>, <<C24_Standby, C24_Enabled>>})
    /\ [][(stimulus' = "none" /\ state # ENABLED_STATE /\ state' = ENABLED_STATE) =>
             (ReadStep /\ command' = {EnableCommand})]_vars
    /\ (csc_phase = "wait_telemetry")
           ~> (evt_controllerState # <<>> \/ stimulus # "none")
    /\ (csc_phase = "wait_ack" /\ FrameCount(TELEMETRY) < MaxTelemetry)
           ~> (evt_controllerState = <<C24_Standby, C24_Enabled>> \/ stimulus # "none")

\* The CSC has started: STANDBY and ENABLED/STATIONARY were published, the enable
\* command was ACKed, and nothing was done to the mock controller.
C24_Witness ==
    /\ stimulus = "none"
    /\ csc_phase = "running"
    /\ state = ENABLED_STATE
    /\ evt_controllerState = <<C24_Standby, C24_Enabled>>

(***************************************************************************)
(* The two loops of a connection under fair scheduling: the event loop     *)
(* runs every task that is ready, so a command that awaits its Config      *)
(* write resumes, a written CommandStatus is drained, and the telemetry    *)
(* loop gets its rounds (each of which may fail in update_telemetry).      *)
(***************************************************************************)
SpecLoops ==
    /\ Init
    /\ [][NextDrives]_vars
    /\ WF_vars(DrivesEnableDrivesResume)
    /\ WF_vars(StatusWritten /\ UNCHANGED observed)
    /\ WF_vars(DrivesTelemetryLoopBegin)
    /\ WF_vars((\E updated \in BOOLEAN : TelemetryLoopStep(updated)) /\ UNCHANGED observed)

\* A Command was read and its method awaits: no CommandStatus is written yet.
CommandPending == connected /\ read_loop = "cfg_drain"

\* The CommandStatus of the Command read last is written.
CommandAnswered == read_loop = "status_drain" /\ Cardinality(command_status) = 1

\* The telemetry loop ends though the client stays connected.
PublisherEnds ==
    /\ connected /\ connected'
    /\ telemetry_loop_task \in {"cfg_drain", "sleep"}
    /\ telemetry_loop_task' = "done"

\* C31: the command loop and the telemetry loop do not block each other.
\* Wherever the telemetry loop is (starting, writing, sleeping, failed or ended),
\* a Command that is read is answered in the step that reads it or, when its
\* method awaits, some time later unless the client goes; a step of one loop leaves the place of
\* the other loop alone; the telemetry loop ends while the client is connected
\* only in a round that writes nothing (update_telemetry raised); and after any
\* number of commands read, the telemetry loop of a connected client writes
\* another Telemetry record (up to MaxTelemetry of them) unless it failed.
C31_LoopsIndependent ==
    /\ CommandPending ~> (CommandAnswered \/ ~connected)
    /\ [][ReadStep /\ read_loop' # "cfg_drain" => CommandAnswered']_vars
    /\ [][ReadStep \/ (read_loop = "cfg_drain" /\ read_loop' = "status_drain") =>
            telemetry_loop_task' = telemetry_loop_task]_vars
    /\ [][TelemetryStep => UNCHANGED <<read_loop, command, command_status, commands_read>>]_vars
    /\ [][PublisherEnds => wire' = wire]_vars
    /\ \A k \in 0..(MaxTelemetry - 1) :
          (connected /\ telemetry_loop_task \in {"cfg_drain", "sleep"}
                     /\ commands_read \in 0..MaxCommands /\ FrameCount(TELEMETRY) = k)
              ~> (FrameCount(TELEMETRY) > k \/ ~connected \/ telemetry_loop_task = "done")

\* The last Command the client may send, enable_drives, is answered after the
\* telemetry loop wrote a Telemetry record while the command was waiting and then
\* failed: the client is still connected and the telemetry loop is done.
C31_Witness ==
    /\ connected
    /\ commands_read = MaxCommands
    /\ telemetry_loop_task = "done"
    /\ CommandAnswered
    /\ \E c \in command : c.code = ENABLE_DRIVES
    /\ \E i \in 1..(Len(wire) - 2) :
          /\ wire[i] = Frame(CONFIG, "do_enable_drives")
          /\ wire[i + 1] = Frame(TELEMETRY, "telemetry_loop")
          /\ wire[Len(wire)] = Frame(COMMAND_STATUS, "read_and_dispatch")

\* C32: the CSC does not report commandableByDDS(state=True) while the Telemetry
\* record its client read last has the DDS_COMMAND_SOURCE flag clear, whatever
\* Config record was read since.
C32_CommandableFollowsTelemetry ==
    \A t \in client_telemetry :
        DDS_COMMAND_SOURCE \notin t.application_status => evt_commandableByDDS # {TRUE}

====
